---- MODULE Spec2Model ----
(***************************************************************************)
(* snippt-link: the payload codec (src/src/compression.ts), the URL binder *)
(* that writes the token to the address fragment, and the properties the   *)
(* specification states about them.                                        *)
(*                                                                         *)
(* A JavaScript string is a sequence of UTF-16 code units, modelled as a   *)
(* sequence of integers.  A byte array (Uint8Array) is a sequence of       *)
(* integers in 0..255.  String literals of the source are written with     *)
(* Str, which maps a tuple of one-character strings to code units.         *)
(***************************************************************************)
EXTENDS Integers, Sequences, FiniteSets, TLC

VARIABLES
    text,        \* SpecNormalize: the string normalizeCode is applied to
    prev,        \* SpecNormalize: the strings it was applied to before, oldest first
    pc,          \* SpecCodec: "start", "encoded", "roundtrip", "given", "parsed"
    code,        \* SpecCodec: the code argument of encode
    lang,        \* SpecCodec: the lang argument of encode (UNDEFINED when omitted)
    token,       \* SpecCodec: the token returned by encode, or handed to decode
    foreignInflate, \* SpecCodec: what decompressSync answers on bytes compressSync never writes
    decoded,     \* SpecCodec: what decode returned
    rounds,      \* SpecCycle: token and result of the encode and decode rounds before
    window,      \* location (lengths of origin and pathname, hash) and history
    initialHash, \* location.hash when the page was loaded
    calls,       \* the calls of updateUrlHash so far: arguments, time, returned status
    editor,      \* SpecEditor: the Monaco editor: value and language of its model
    isReadOnly,  \* SpecEditor: the read-only mode
    currentLanguage, \* SpecEditor: the language shown by the selector
    lastTapTime, \* SpecEditor: time of the last tap, in ms since the page was loaded
    timer,       \* SpecEditor: the timeout debounce holds
    timeouts,    \* SpecEditor: the timeouts the browser has pending
    detections,  \* SpecEditor: the handler runs that await detectLanguageFromContent
    elapsed,     \* SpecEditor: ms since the page was loaded
    burst,       \* SpecEditor: time of the last change event, handler starts since
    uiEvents,    \* SpecEditor: number of events of the user so far
    now,         \* Math.floor(Date.now() / 1000), read by the gzip header writer
    swState,     \* SpecWorker: "installing", "installed", "activated" ("none" elsewhere)
    caches,      \* SpecWorker: the CacheStorage of the origin, cache name to cache (URL to response)
    fetching,    \* SpecWorker: the fetch(request) calls of the handler that have not settled
    putting,     \* SpecWorker: the cache.put calls that caches.open has not yet reached
    handled      \* SpecWorker: the fetch events so far: request, whether intercepted, answer

normalizeVars == <<text, prev>>
codecVars == <<pc, code, lang, token, foreignInflate, decoded, rounds>>
binderVars == <<window, initialHash, calls>>
editorVars == <<editor, isReadOnly, currentLanguage, lastTapTime, timer, timeouts,
                detections, elapsed, burst, uiEvents>>
workerVars == <<swState, caches, fetching, putting, handled>>
vars == <<normalizeVars, codecVars, binderVars, editorVars, workerVars, now>>

(***************************************************************************)
(* Bounds of the model.                                                    *)
(***************************************************************************)
MaxTextLen == 6      \* longest input of normalizeCode in SpecNormalize
MaxPieces == 2       \* most fragments concatenated into a code argument
MaxTicks == 1        \* seconds the clock may advance
MaxCalls == 3        \* most calls of updateUrlHash in SpecBinder
MaxCallsRead == 1    \* most calls of updateUrlHash in SpecReader
MaxRounds == 2       \* most rounds of encode and decode after the first in SpecCycle
MaxEvents == 2       \* most events of the user in SpecEditor
MaxSteps == 4        \* steps of the clock, of half the debounce delay, in SpecEditor
MaxLoadEvents == 1   \* most events of the user in SpecLoad
MaxFetchEvents == 2  \* most fetch events in SpecWorker

(***************************************************************************)
(* Characters.                                                             *)
(***************************************************************************)
\* the printable ASCII characters U+0020..U+005F and U+0061..U+007E, in
\* code-unit order (U+0060 appears in no literal of the source)
AsciiLow ==
    <<" ", "!", "\"", "#", "$", "%", "&", "'", "(", ")", "*", "+", ",", "-", ".", "/",
      "0", "1", "2", "3", "4", "5", "6", "7", "8", "9", ":", ";", "<", "=", ">", "?",
      "@", "A", "B", "C", "D", "E", "F", "G", "H", "I", "J", "K", "L", "M", "N", "O",
      "P", "Q", "R", "S", "T", "U", "V", "W", "X", "Y", "Z", "[", "\\", "]", "^", "_">>

AsciiHigh ==
    <<"a", "b", "c", "d", "e", "f", "g", "h", "i", "j", "k", "l", "m", "n", "o",
      "p", "q", "r", "s", "t", "u", "v", "w", "x", "y", "z", "{", "|", "}", "~">>

\* code unit of a printable ASCII character
Ord(c) ==
    IF \E i \in 1..Len(AsciiLow) : AsciiLow[i] = c
    THEN 31 + (CHOOSE i \in 1..Len(AsciiLow) : AsciiLow[i] = c)
    ELSE 96 + (CHOOSE i \in 1..Len(AsciiHigh) : AsciiHigh[i] = c)

\* a string literal of the source
Str(cs) == [i \in 1..Len(cs) |-> Ord(cs[i])]

LF == <<10>>
CR == <<13>>

\* White_Space and LineTerminator code units of ECMAScript (String.prototype.trim)
WhiteSpace ==
    {9, 10, 11, 12, 13, 32, 160, 5760, 8232, 8233, 8239, 8287, 12288, 65279}
        \cup (8192..8202)

(***************************************************************************)
(* String primitives of JavaScript used by the codec.                      *)
(***************************************************************************)
Min(S) == CHOOSE m \in S : \A n \in S : m <= n

\* s.indexOf(pat): 0-based index of the first occurrence, -1 when absent
indexOf(s, pat) ==
    LET hits == {i \in 0..(Len(s) - Len(pat)) : SubSeq(s, i + 1, i + Len(pat)) = pat}
    IN  IF hits = {} THEN -1 ELSE Min(hits)

\* s.substring(from, to) with 0 <= from <= to <= s.length
substring(s, from, to) == SubSeq(s, from + 1, to)

\* s.split(pat) for a non-empty separator
RECURSIVE split(_, _)
split(s, pat) ==
    LET i == indexOf(s, pat)
    IN  IF i = -1 THEN <<s>>
        ELSE <<substring(s, 0, i)>> \o split(substring(s, i + Len(pat), Len(s)), pat)

\* concatenation of a sequence of strings
RECURSIVE flatten(_)
flatten(parts) ==
    IF Len(parts) = 0 THEN <<>>
    ELSE IF Len(parts) = 1 THEN parts[1]
    ELSE LET half == Len(parts) \div 2
         IN  flatten(SubSeq(parts, 1, half)) \o flatten(SubSeq(parts, half + 1, Len(parts)))

\* parts.join(sep)
join(parts, sep) ==
    IF Len(parts) = 0 THEN <<>>
    ELSE flatten([i \in 1..(2 * Len(parts) - 1) |->
                     IF i % 2 = 1 THEN parts[(i + 1) \div 2] ELSE sep])

Max(S) == CHOOSE m \in S : \A n \in S : m >= n

\* s.trimEnd()
trimEnd(s) ==
    LET kept == {i \in 1..Len(s) : s[i] \notin WhiteSpace}
    IN  IF kept = {} THEN <<>> ELSE SubSeq(s, 1, Max(kept))

\* s.trimStart()
trimStart(s) ==
    LET kept == {i \in 1..Len(s) : s[i] \notin WhiteSpace}
    IN  IF kept = {} THEN <<>> ELSE SubSeq(s, Min(kept), Len(s))

\* s.trim()
trim(s) == trimEnd(trimStart(s))

\* number of \n at the start of s
newlineRun(s) ==
    LET others == {i \in 1..Len(s) : s[i] # 10}
    IN  IF others = {} THEN Len(s) ELSE Min(others) - 1

\* the replacement with three \n in the place of two
RECURSIVE collapseNewlinesToThree(_)
collapseNewlinesToThree(s) ==
    LET i == indexOf(s, <<10, 10, 10>>)
        rest == substring(s, i, Len(s))
    IN  IF i = -1 THEN s
        ELSE substring(s, 0, i) \o <<10, 10, 10>>
                 \o collapseNewlinesToThree(substring(rest, newlineRun(rest), Len(rest)))

\* s.replace(/\n{3,}/g, "\n\n"): each maximal run of three or more \n,
\* from the left, becomes two
RECURSIVE collapseNewlines(_)
collapseNewlines(s) ==
    LET i == indexOf(s, <<10, 10, 10>>)
        rest == substring(s, i, Len(s))
    IN  IF i = -1 THEN s
        ELSE substring(s, 0, i) \o <<10, 10>>
                 \o collapseNewlines(substring(rest, newlineRun(rest), Len(rest)))

(***************************************************************************)
(* normalizeCode                                                           *)
(***************************************************************************)
\* normalizeCode with the blank-line limit applied before the lines are
\* trimmed
normalizeCodeCollapseFirst(c) ==
    LET unix == join(split(c, CR \o LF), LF)
        lines == split(collapseNewlines(unix), LF)
        trimmed == [i \in 1..Len(lines) |-> trimEnd(lines[i])]
    IN  trim(join(trimmed, LF))

\* normalizeCode without the trim of the whole text
normalizeCodeUntrimmed(c) ==
    LET unix == join(split(c, CR \o LF), LF)
        lines == split(unix, LF)
        trimmed == [i \in 1..Len(lines) |-> trimEnd(lines[i])]
    IN  collapseNewlines(join(trimmed, LF))

normalizeCode(c) ==
    LET unix == join(split(c, CR \o LF), LF)
        lines == split(unix, LF)
        trimmed == [i \in 1..Len(lines) |-> trimEnd(lines[i])]
    IN  trim(collapseNewlines(join(trimmed, LF)))

(***************************************************************************)
(* The dictionary stage.                                                   *)
(***************************************************************************)
DICTIONARY ==
    <<<<Str(<<" ", " ", " ", " ">>), <<57344>>>>,
      <<Str(<<"c", "o", "n", "s", "o", "l", "e", ".", "l", "o", "g", "(">>), <<57345>>>>,
      <<Str(<<"f", "u", "n", "c", "t", "i", "o", "n", " ">>), <<57346>>>>,
      <<Str(<<"r", "e", "t", "u", "r", "n", " ">>), <<57347>>>>,
      <<Str(<<"c", "o", "n", "s", "t", " ">>), <<57348>>>>,
      <<Str(<<"e", "x", "p", "o", "r", "t", " ">>), <<57349>>>>,
      <<Str(<<"i", "m", "p", "o", "r", "t", " ">>), <<57350>>>>,
      <<Str(<<"a", "s", "y", "n", "c", " ">>), <<57351>>>>,
      <<Str(<<"a", "w", "a", "i", "t", " ">>), <<57352>>>>,
      <<Str(<<"c", "l", "a", "s", "s", " ">>), <<57353>>>>,
      <<Str(<<"t", "h", "i", "s", ".">>), <<57354>>>>,
      <<Str(<<"n", "u", "l", "l">>), <<57355>>>>,
      <<Str(<<"t", "r", "u", "e">>), <<57356>>>>,
      <<Str(<<"f", "a", "l", "s", "e">>), <<57357>>>>,
      <<Str(<<"u", "n", "d", "e", "f", "i", "n", "e", "d">>), <<57358>>>>,
      <<Str(<<"=", ">", " ", "{">>), <<57359>>>>,
      <<Str(<<"(", ")", " ", "{">>), <<57360>>>>,
      <<Str(<<")", " ", "{">>), <<57361>>>>,
      <<Str(<<"\"", ":", " ", "\"">>), <<57362>>>>,
      <<Str(<<"\"", ",", " ", "\"">>), <<57363>>>>,
      <<Str(<<" ", "=", " ">>), <<57364>>>>,
      <<Str(<<" ", "=", "=", "=", " ">>), <<57365>>>>,
      <<Str(<<" ", "!", "=", "=", " ">>), <<57366>>>>,
      <<Str(<<"p", "u", "b", "l", "i", "c", " ">>), <<57367>>>>,
      <<Str(<<"p", "r", "i", "v", "a", "t", "e", " ">>), <<57368>>>>,
      <<Str(<<"s", "t", "a", "t", "i", "c", " ">>), <<57369>>>>,
      <<Str(<<"t", "h", "r", "o", "w", " ">>), <<57370>>>>,
      <<Str(<<"c", "a", "t", "c", "h", " ">>), <<57371>>>>,
      <<Str(<<"t", "r", "y", " ", "{">>), <<57372>>>>,
      <<Str(<<"i", "f", " ", "(">>), <<57373>>>>,
      <<Str(<<"f", "o", "r", " ", "(">>), <<57374>>>>>>

\* text.split(from).join(to); a text without the separator is split into
\* one part, which join returns as it is
substitute(t, from, to) ==
    IF indexOf(t, from) = -1 THEN t ELSE join(split(t, from), to)

\* result = result.split(pattern).join(token) for each pair, in list order
RECURSIVE applyFrom(_, _)
applyFrom(res, i) ==
    IF i > Len(DICTIONARY) THEN res
    ELSE IF indexOf(res, DICTIONARY[i][1]) = -1 THEN applyFrom(res, i + 1)
    ELSE applyFrom(substitute(res, DICTIONARY[i][1], DICTIONARY[i][2]), i + 1)

applyDictionary(t) == applyFrom(t, 1)

\* result = result.split(token).join(pattern) for each pair, from the last
\* to the first
RECURSIVE reverseFrom(_, _)
reverseFrom(res, i) ==
    IF i < 1 THEN res
    ELSE IF indexOf(res, DICTIONARY[i][2]) = -1 THEN reverseFrom(res, i - 1)
    ELSE reverseFrom(substitute(res, DICTIONARY[i][2], DICTIONARY[i][1]), i - 1)

\* res.replace(tok, pat) in the place of res.split(tok).join(pat): the first
\* occurrence only
substituteFirst(res, tok, pat) ==
    LET i == indexOf(res, tok)
    IN  IF i = -1 THEN res
        ELSE substring(res, 0, i) \o pat \o substring(res, i + Len(tok), Len(res))

RECURSIVE reverseFromFirst(_, _)
reverseFromFirst(res, i) ==
    IF i < 1 THEN res
    ELSE IF indexOf(res, DICTIONARY[i][2]) = -1 THEN reverseFromFirst(res, i - 1)
    ELSE reverseFromFirst(substituteFirst(res, DICTIONARY[i][2], DICTIONARY[i][1]), i - 1)

reverseDictionaryFirstOnly(t) == reverseFromFirst(t, Len(DICTIONARY))

\* the loop with i > 0 in the place of i >= 0
RECURSIVE reverseFromSecond(_, _)
reverseFromSecond(res, i) ==
    IF i < 2 THEN res
    ELSE IF indexOf(res, DICTIONARY[i][2]) = -1 THEN reverseFromSecond(res, i - 1)
    ELSE reverseFromSecond(substitute(res, DICTIONARY[i][2], DICTIONARY[i][1]), i - 1)

reverseDictionarySkipFirst(t) == reverseFromSecond(t, Len(DICTIONARY))

reverseDictionary(t) == reverseFrom(t, Len(DICTIONARY))

(***************************************************************************)
(* Results of operations that may throw.                                   *)
(***************************************************************************)
Thrown == [ok |-> FALSE]
Ok(v) == [ok |-> TRUE, val |-> v]

(***************************************************************************)
(* fflate, strToU8 and strFromU8: UTF-8 through TextEncoder / TextDecoder. *)
(***************************************************************************)
IsHighSurrogate(c) == c >= 55296 /\ c <= 56319
IsLowSurrogate(c) == c >= 56320 /\ c <= 57343
IsContinuation(b) == b >= 128 /\ b <= 191

\* UTF-8 of one code point
utf8Bytes(cp) ==
    IF cp < 128 THEN <<cp>>
    ELSE IF cp < 2048 THEN <<192 + cp \div 64, 128 + (cp % 64)>>
    ELSE IF cp < 65536
         THEN <<224 + cp \div 4096, 128 + ((cp \div 64) % 64), 128 + (cp % 64)>>
    ELSE <<240 + cp \div 262144, 128 + ((cp \div 4096) % 64),
           128 + ((cp \div 64) % 64), 128 + (cp % 64)>>

\* strToU8(str): a surrogate pair is one code point, a lone surrogate is
\* encoded as U+FFFD
strToU8(str) ==
    LET paired(i) == /\ i >= 1 /\ i < Len(str)
                     /\ IsHighSurrogate(str[i]) /\ IsLowSurrogate(str[i + 1])
        unit(i) ==
            IF paired(i)
            THEN utf8Bytes(65536 + (str[i] - 55296) * 1024 + (str[i + 1] - 56320))
            ELSE IF paired(i - 1) THEN <<>>
            ELSE IF IsHighSurrogate(str[i]) \/ IsLowSurrogate(str[i])
            THEN utf8Bytes(65533)
            ELSE utf8Bytes(str[i])
    IN  flatten([i \in 1..Len(str) |-> unit(i)])

\* code units of one code point
codeUnits(cp) ==
    IF cp < 65536 THEN <<cp>>
    ELSE <<55296 + (cp - 65536) \div 1024, 56320 + ((cp - 65536) % 1024)>>

\* number of continuation bytes the lead byte b announces, -1 when b is
\* no lead byte
needed(b) ==
    IF b < 128 THEN 0
    ELSE IF b >= 194 /\ b <= 223 THEN 1
    ELSE IF b >= 224 /\ b <= 239 THEN 2
    ELSE IF b >= 240 /\ b <= 244 THEN 3
    ELSE -1

\* the second byte of a sequence is further limited by its lead byte, which
\* excludes overlong forms, surrogates and code points above U+10FFFF
IsSecondByte(lead, b) ==
    /\ b >= (IF lead = 224 THEN 160 ELSE IF lead = 240 THEN 144 ELSE 128)
    /\ b <= (IF lead = 237 THEN 159 ELSE IF lead = 244 THEN 143 ELSE 191)

\* the decoding loop of TextDecoder: a lead byte followed by the bytes it
\* announces yields its code point; a lead byte followed by fewer yields one
\* U+FFFD for itself and the bytes that did fit; any other byte yields U+FFFD
utf8Decode(dat) ==
    LET n == Len(dat)
        fits(i, k) ==
            /\ i + k <= n
            /\ IF k = 1 THEN IsSecondByte(dat[i], dat[i + 1]) ELSE IsContinuation(dat[i + k])
        followers(i) ==
            IF needed(dat[i]) >= 1 /\ fits(i, 1)
            THEN IF needed(dat[i]) >= 2 /\ fits(i, 2)
                 THEN IF needed(dat[i]) >= 3 /\ fits(i, 3) THEN 3 ELSE 2
                 ELSE 1
            ELSE 0
        inside(i) == \E back \in 1..3 : i - back >= 1 /\ followers(i - back) >= back
        codePoint(i) ==
            IF needed(dat[i]) = 1 THEN (dat[i] - 192) * 64 + (dat[i + 1] - 128)
            ELSE IF needed(dat[i]) = 2
            THEN (dat[i] - 224) * 4096 + (dat[i + 1] - 128) * 64 + (dat[i + 2] - 128)
            ELSE (dat[i] - 240) * 262144 + (dat[i + 1] - 128) * 4096
                     + (dat[i + 2] - 128) * 64 + (dat[i + 3] - 128)
        at(i) ==
            IF inside(i) THEN <<>>
            ELSE IF needed(dat[i]) = 0 THEN <<dat[i]>>
            ELSE IF needed(dat[i]) >= 1 /\ followers(i) = needed(dat[i])
            THEN codeUnits(codePoint(i))
            ELSE <<65533>>
    IN  flatten([i \in 1..n |-> at(i)])

\* strFromU8(dat): TextDecoder drops a leading byte order mark
strFromU8(dat) ==
    IF Len(dat) >= 3 /\ SubSeq(dat, 1, 3) = <<239, 187, 191>>
    THEN utf8Decode(SubSeq(dat, 4, Len(dat)))
    ELSE utf8Decode(dat)

(***************************************************************************)
(* fflate, compressSync (gzipSync) and decompressSync.                     *)
(*                                                                         *)
(* compressSync writes a gzip member (RFC 1952): a 10-byte header holding  *)
(* the modification time, which fflate takes from Date.now() when the      *)
(* caller gives none, a DEFLATE stream and the CRC-32 and length of the    *)
(* input.  The DEFLATE stream is modelled by its stored encoding (RFC 1951 *)
(* section 3.2.4), which every inflater reads back to the same bytes as    *)
(* the Huffman encoding fflate chooses; inputs of 65535 bytes or less.     *)
(* What decompressSync does with bytes that are no such member is the      *)
(* parameter foreign, except for the reserved block type, which every      *)
(* inflater rejects.                                                       *)
(***************************************************************************)
\* exclusive or of two naturals below 256
xor8(a, b) ==
    LET bit(k) == (((a \div k) % 2) + ((b \div k) % 2)) % 2
    IN  bit(1) + 2 * bit(2) + 4 * bit(4) + 8 * bit(8) + 16 * bit(16)
            + 32 * bit(32) + 64 * bit(64) + 128 * bit(128)

\* 32-bit words are kept as four bytes, least significant first
xor32(v, w) == <<xor8(v[1], w[1]), xor8(v[2], w[2]), xor8(v[3], w[3]), xor8(v[4], w[4])>>

shiftRight1(v) ==
    <<v[1] \div 2 + (v[2] % 2) * 128, v[2] \div 2 + (v[3] % 2) * 128,
      v[3] \div 2 + (v[4] % 2) * 128, v[4] \div 2>>

shiftRight8(v) == <<v[2], v[3], v[4], 0>>

\* the reflected CRC-32 polynomial EDB88320
crcPolynomial == <<32, 131, 184, 237>>

RECURSIVE crcRounds(_, _)
crcRounds(c, k) ==
    IF k = 0 THEN c
    ELSE IF c[1] % 2 = 1 THEN crcRounds(xor32(crcPolynomial, shiftRight1(c)), k - 1)
    ELSE crcRounds(shiftRight1(c), k - 1)

crcTable == [n \in 0..255 |-> crcRounds(<<n, 0, 0, 0>>, 8)]

\* cr = crcTable[(cr & 255) ^ d[i]] ^ (cr >>> 8) for the bytes d[i..]
RECURSIVE crcUpdate(_, _, _)
crcUpdate(cr, d, i) ==
    IF i > Len(d) \/ cr = <<>> THEN cr
    ELSE crcUpdate(xor32(crcTable[xor8(cr[1], d[i])], shiftRight8(cr)), d, i + 1)

crc32(d) == xor32(crcUpdate(<<255, 255, 255, 255>>, d, 1), <<255, 255, 255, 255>>)

\* a number below 2^31 as four bytes, least significant first
le32(n) == <<n % 256, (n \div 256) % 256, (n \div 65536) % 256, n \div 16777216>>

\* gzip header of fflate at level 9: magic, deflate, no flags, mtime,
\* XFL = 2 (best compression), OS = 3 (Unix)
gzipHeader(time) == <<31, 139, 8, 0>> \o le32(time) \o <<2, 3>>

\* one final stored block: BFINAL = 1, BTYPE = 00, LEN, NLEN, the bytes
storedBlock(d) ==
    <<1, Len(d) % 256, Len(d) \div 256, 255 - (Len(d) % 256), 255 - (Len(d) \div 256)>> \o d

compressSync(d, time) == gzipHeader(time) \o storedBlock(d) \o crc32(d) \o le32(Len(d))

\* the bytes are a gzip member without optional fields whose body is one
\* final stored block that ends where the trailer begins
IsStoredMember(d) ==
    /\ Len(d) >= 23
    /\ SubSeq(d, 1, 4) = <<31, 139, 8, 0>>
    /\ d[11] = 1
    /\ d[12] + 256 * d[13] = Len(d) - 23

decompressSync(d, foreign) ==
    IF IsStoredMember(d) THEN Ok(SubSeq(d, 16, Len(d) - 8))
    ELSE IF Len(d) >= 3 /\ SubSeq(d, 1, 3) = <<31, 139, 8>> THEN foreign
    ELSE IF d # <<>> /\ (d[1] \div 2) % 4 = 3 THEN Thrown
    ELSE foreign

(***************************************************************************)
(* Base64: btoa and atob of the browser, and the URL-safe variant.         *)
(***************************************************************************)
Base64Alphabet ==
    Str(<<"A", "B", "C", "D", "E", "F", "G", "H", "I", "J", "K", "L", "M",
          "N", "O", "P", "Q", "R", "S", "T", "U", "V", "W", "X", "Y", "Z",
          "a", "b", "c", "d", "e", "f", "g", "h", "i", "j", "k", "l", "m",
          "n", "o", "p", "q", "r", "s", "t", "u", "v", "w", "x", "y", "z",
          "0", "1", "2", "3", "4", "5", "6", "7", "8", "9", "+", "/">>)

EQUALS == Str(<<"=">>)
PLUS == Str(<<"+">>)
SLASH == Str(<<"/">>)
MINUS == Str(<<"-">>)
UNDERSCORE == Str(<<"_">>)
PIPE == Str(<<"|">>)
HASH == Str(<<"#">>)

\* character of a 6-bit value
base64Char(v) == Base64Alphabet[v + 1]

\* 6-bit value of a character of the alphabet
base64Value(c) == (CHOOSE k \in 1..64 : Base64Alphabet[k] = c) - 1

InBase64Alphabet(c) == \E k \in 1..64 : Base64Alphabet[k] = c

\* btoa(binary) for a binary string of code units below 256: every three
\* bytes give four characters, a last group of one or two bytes is padded
btoa(binary) ==
    LET n == Len(binary)
        byte(i) == IF i <= n THEN binary[i] ELSE 0
        char(k) ==
            LET first == 3 * ((k - 1) \div 4) + 1
                b1 == byte(first)
                b2 == byte(first + 1)
                b3 == byte(first + 2)
                j == (k - 1) % 4
            IN  IF j = 0 THEN base64Char(b1 \div 4)
                ELSE IF j = 1 THEN base64Char((b1 % 4) * 16 + b2 \div 16)
                ELSE IF j = 2
                THEN (IF first + 1 > n THEN EQUALS[1]
                      ELSE base64Char((b2 % 16) * 4 + b3 \div 64))
                ELSE (IF first + 2 > n THEN EQUALS[1] ELSE base64Char(b3 % 64))
    IN  [k \in 1..(4 * ((n + 2) \div 3)) |-> char(k)]

\* s.replace(/=+$/, "")
RECURSIVE stripPadding(_)
stripPadding(s) ==
    IF s # <<>> /\ <<s[Len(s)]>> = EQUALS THEN stripPadding(SubSeq(s, 1, Len(s) - 1)) ELSE s

\* toUrlSafeBase64 that leaves "/" in place
toUrlSafeBase64KeepSlash(data) == stripPadding(join(split(btoa(data), PLUS), MINUS))

toUrlSafeBase64(data) ==
    stripPadding(join(split(join(split(btoa(data), PLUS), MINUS), SLASH), UNDERSCORE))

\* bytes of a run of alphabet characters: every four characters give three
\* bytes, a final group of two or three characters gives one or two bytes
\* and its spare bits are dropped
base64Bytes(s) ==
    LET n == Len(s)
        value(k) == IF k <= n THEN base64Value(s[k]) ELSE 0
        count == 3 * (n \div 4) + (IF n % 4 = 0 THEN 0 ELSE (n % 4) - 1)
        byte(i) ==
            LET first == 4 * ((i - 1) \div 3) + 1
                j == (i - 1) % 3
            IN  IF j = 0 THEN value(first) * 4 + value(first + 1) \div 16
                ELSE IF j = 1
                THEN (value(first + 1) % 16) * 16 + value(first + 2) \div 4
                ELSE (value(first + 2) % 4) * 64 + value(first + 3)
    IN  [i \in 1..count |-> byte(i)]

\* ASCII whitespace, which atob removes first
AsciiWhitespace == {9, 10, 12, 13, 32}

\* at most two trailing = of a string whose length is a multiple of 4
dropPadding(s) ==
    IF Len(s) % 4 # 0 \/ s = <<>> THEN s
    ELSE IF <<s[Len(s)]>> # EQUALS THEN s
    ELSE IF <<s[Len(s) - 1]>> # EQUALS THEN SubSeq(s, 1, Len(s) - 1)
    ELSE SubSeq(s, 1, Len(s) - 2)

\* atob(str): the forgiving-base64 decode of the HTML standard; throws
\* InvalidCharacterError on a wrong length or a foreign character
atob(str) ==
    LET stripped == SelectSeq(str, LAMBDA c : c \notin AsciiWhitespace)
        data == dropPadding(stripped)
    IN  IF Len(data) % 4 = 1 THEN Thrown
        ELSE IF \E k \in 1..Len(data) : ~InBase64Alphabet(data[k]) THEN Thrown
        ELSE Ok(base64Bytes(data))

\* while (base64.length % 4) base64 += "="
RECURSIVE padToFour(_)
padToFour(base64) ==
    IF Len(base64) % 4 # 0 THEN padToFour(base64 \o EQUALS) ELSE base64

fromUrlSafeBase64(str) ==
    atob(padToFour(join(split(join(split(str, MINUS), PLUS), UNDERSCORE), SLASH)))

(***************************************************************************)
(* encode and decode                                                       *)
(***************************************************************************)
UNDEFINED == <<-1>>
NULL == [null |-> TRUE]

\* truthiness of an optional string: neither undefined nor empty
Truthy(s) == s # UNDEFINED /\ s # <<>>

\* time is Math.floor(Date.now() / 1000) at the call
encode(c, l, time) ==
    LET normalized == normalizeCode(c)
        payload == IF Truthy(l) THEN l \o PIPE \o normalized ELSE normalized
        dictCompressed == applyDictionary(payload)
        compressed == compressSync(strToU8(dictCompressed), time)
    IN  toUrlSafeBase64(compressed)

IsLetter(c) == (c >= 65 /\ c <= 90) \/ (c >= 97 /\ c <= 122)
IsDigit(c) == c >= 48 /\ c <= 57

\* /^[a-zA-Z][a-zA-Z0-9-]*$/.test(s)
LooksLikeLang(s) ==
    /\ s # <<>>
    /\ IsLetter(s[1])
    /\ \A k \in 2..Len(s) : IsLetter(s[k]) \/ IsDigit(s[k]) \/ <<s[k]>> = MINUS

\* the language split with the separator accepted up to index 18 only
splitLangShort(restored) ==
    LET pipeIndex == indexOf(restored, PIPE)
        possibleLang == substring(restored, 0, pipeIndex)
    IN  IF pipeIndex > 0 /\ pipeIndex < 19 /\ LooksLikeLang(possibleLang)
        THEN [lang |-> possibleLang,
              code |-> substring(restored, pipeIndex + 1, Len(restored))]
        ELSE [code |-> restored]

\* the language split without the test of the prefix
splitLangAnyPrefix(restored) ==
    LET pipeIndex == indexOf(restored, PIPE)
        possibleLang == substring(restored, 0, pipeIndex)
    IN  IF pipeIndex > 0 /\ pipeIndex < 20
        THEN [lang |-> possibleLang,
              code |-> substring(restored, pipeIndex + 1, Len(restored))]
        ELSE [code |-> restored]

\* the language split of decode, on the text the dictionary stage restored
splitLang(restored) ==
    LET pipeIndex == indexOf(restored, PIPE)
        possibleLang == substring(restored, 0, pipeIndex)
    IN  IF pipeIndex > 0 /\ pipeIndex < 20 /\ LooksLikeLang(possibleLang)
        THEN [lang |-> possibleLang,
              code |-> substring(restored, pipeIndex + 1, Len(restored))]
        ELSE [code |-> restored]

\* the try block of decode: Thrown when a stage throws
tryDecode(hash, foreign) ==
    LET compressed == fromUrlSafeBase64(hash)
        inflated == decompressSync(compressed.val, foreign)
        decompressed == strFromU8(inflated.val)
    IN  IF ~compressed.ok THEN Thrown
        ELSE IF ~inflated.ok THEN Thrown
        ELSE IF decompressed = <<>> THEN Ok(NULL)
        ELSE Ok(splitLang(reverseDictionary(decompressed)))

\* decode without the catch clause: what a stage throws reaches the caller
decodeUncaught(hash, foreign) ==
    IF hash = <<>> THEN NULL
    ELSE LET r == tryDecode(hash, foreign)
         IN  IF r.ok THEN r.val ELSE r

decode(hash, foreign) ==
    IF hash = <<>> THEN NULL
    ELSE LET r == tryDecode(hash, foreign)
         IN  IF r.ok THEN r.val ELSE NULL

(***************************************************************************)
(* The URL binder.  Only the lengths of window.location.origin and         *)
(* window.location.pathname enter the code, so the model keeps the         *)
(* lengths; location.hash is kept as a string, with its leading #.         *)
(***************************************************************************)
URL_WARNING_LIMIT == 2000
URL_ERROR_LIMIT == 8000

\* the status with the warning reported from the limit itself
urlStatusWarnAtLimit(length) ==
    [length |-> length,
     isWarning |-> length >= URL_WARNING_LIMIT /\ length <= URL_ERROR_LIMIT,
     isError |-> length > URL_ERROR_LIMIT]

\* the status with a warning that has no upper limit
urlStatusErrorAlsoWarns(length) ==
    [length |-> length,
     isWarning |-> length > URL_WARNING_LIMIT,
     isError |-> length > URL_ERROR_LIMIT]

\* the UrlStatus of a URL of the given length
urlStatus(length) ==
    [length |-> length,
     isWarning |-> length > URL_WARNING_LIMIT /\ length <= URL_ERROR_LIMIT,
     isError |-> length > URL_ERROR_LIMIT]

\* history.pushState in the place of history.replaceState
replaceStatePush(win, url) ==
    [location |-> [win.location EXCEPT !.hash = url],
     history |-> [length |-> win.history.length + 1]]

\* the new fragment added to the one in place
replaceStateAppend(win, url) ==
    [win EXCEPT !.location.hash = IF @ = <<>> THEN url ELSE @ \o Tail(url)]

\* history.replaceState(null, "", url) for a url that is # and a non-empty
\* fragment: the current entry takes the new fragment
replaceState(win, url) == [win EXCEPT !.location.hash = url]

\* updateUrlHash that writes whatever the status is
updateUrlHashAlways(c, l, time, win) ==
    LET encoded == encode(c, l, time)
        length == win.location.originLength + win.location.pathnameLength + 1 + Len(encoded)
    IN  [status |-> urlStatus(length), window |-> replaceState(win, HASH \o encoded)]

\* the returned status and the window after the call
updateUrlHash(c, l, time, win) ==
    LET encoded == encode(c, l, time)
        length == win.location.originLength + win.location.pathnameLength + 1 + Len(encoded)
        status == urlStatus(length)
    IN  [status |-> status,
         window |-> IF ~status.isError THEN replaceState(win, HASH \o encoded) ELSE win]

\* String.prototype.slice(start) for a start that is not negative
slice(s, start) == SubSeq(s, start + 1, Len(s))

\* readUrlHash that hands the hash to decode as it is
readUrlHashKeepHash(win, foreign) == decode(win.location.hash, foreign)

\* what readUrlHash returns
readUrlHash(win, foreign) == decode(slice(win.location.hash, 1), foreign)

(***************************************************************************)
(* The page (src/src/main.ts).  Times are in ms since the page was loaded. *)
(***************************************************************************)
DebounceDelay == 1500
DoubleTapWindow == 300

Plaintext == Str(<<"p", "l", "a", "i", "n", "t", "e", "x", "t">>)
Javascript == Str(<<"j", "a", "v", "a", "s", "c", "r", "i", "p", "t">>)

\* ids that getMonacoLang returns and the selector offers
Languages == {Plaintext, Javascript}

\* clearTimeout(handle) on the pending timeouts of the browser
clearTimeout(pending, handle) == pending \ {handle}

\* the handle that setTimeout(fn, delay) returns at the time at
setTimeout(at, delay) == [set |-> at, due |-> at + delay]

\* the function debounce returns, without clearTimeout
debounceKeepTimer(tm, pending, at, delay) ==
    LET handle == setTimeout(at, delay)
    IN  [timer |-> handle, timeouts |-> pending \cup {handle}]

\* the function debounce returns, called at the time at: the timer it holds
\* and the pending timeouts afterwards
debounce(tm, pending, at, delay) ==
    LET handle == setTimeout(at, delay)
    IN  [timer |-> handle, timeouts |-> clearTimeout(pending, tm) \cup {handle}]

\* handleTap without the test of the time since the last tap
handleTapSingle(readOnly, last, at) ==
    [isReadOnly |-> FALSE, lastTapTime |-> at]

\* handleTap at the time at: isReadOnly and lastTapTime afterwards
handleTap(readOnly, last, at) ==
    [isReadOnly |-> IF at - last < DoubleTapWindow /\ readOnly THEN FALSE ELSE readOnly,
     lastTapTime |-> at]

(***************************************************************************)
(* SpecNormalize: normalizeCode applied repeatedly to a bounded input.     *)
(***************************************************************************)
\* code units the inputs of SpecNormalize are made of: a letter, a space,
\* \n and \r
NormAlphabet == {97, 32, 10, 13}

RECURSIVE StringsUpTo(_, _)
StringsUpTo(alphabet, n) ==
    IF n = 0 THEN {<<>>}
    ELSE LET shorter == StringsUpTo(alphabet, n - 1)
         IN  shorter \cup {Append(s, c) : s \in {t \in shorter : Len(t) = n - 1}, c \in alphabet}

Texts == StringsUpTo(NormAlphabet, MaxTextLen)

NotRun == [notRun |-> TRUE]

CodecIdle ==
    /\ pc = "idle" /\ code = <<>> /\ lang = UNDEFINED /\ token = <<>>
    /\ foreignInflate = Thrown /\ decoded = NotRun /\ rounds = <<>>

NormalizeIdle == text = <<>> /\ prev = <<>>

WorkerIdle ==
    /\ swState = "none"
    /\ caches = <<>>
    /\ fetching = {}
    /\ putting = {}
    /\ handled = <<>>

EditorIdle ==
    /\ editor = NULL /\ isReadOnly = FALSE /\ currentLanguage = <<>> /\ lastTapTime = 0
    /\ timer = UNDEFINED /\ timeouts = {} /\ detections = {} /\ elapsed = 0
    /\ burst = [lastChange |-> -1, starts |-> 0] /\ uiEvents = 0

BinderIdle ==
    /\ window = [location |-> [originLength |-> 0, pathnameLength |-> 0, hash |-> <<>>],
                 history |-> [length |-> 1]]
    /\ initialHash = <<>>
    /\ calls = <<>>

InitNormalize ==
    /\ text \in Texts
    /\ prev = <<>>
    /\ now = 0
    /\ CodecIdle
    /\ BinderIdle
    /\ EditorIdle
    /\ WorkerIdle

Normalize ==
    /\ Len(prev) < 2
    /\ prev' = Append(prev, text)
    /\ text' = normalizeCode(text)
    /\ UNCHANGED <<codecVars, binderVars, now, editorVars, workerVars>>

NextNormalize == Normalize

SpecNormalize == InitNormalize /\ [][NextNormalize]_vars

\* C3: normalizeCode is idempotent: applied to its own result, it returns
\* that result unchanged.
NormalizeIdempotent == Len(prev) = 2 => text = prev[2]

\* a second application has run on a text the first application had changed
NormalizeIdempotentWitness ==
    Len(prev) = 2 /\ prev[1] # prev[2] /\ Len(prev[2]) >= 4 /\ text = prev[2]

\* C17: what normalizeCode returns contains no \r\n, no line of it ends
\* in white space, it contains no three \n in a row, and it neither starts
\* nor ends with white space.
NormalizePostcondition ==
    Len(prev) >= 1 =>
        /\ \A k \in 1..(Len(text) - 1) : ~(text[k] = CR[1] /\ text[k + 1] = LF[1])
        /\ \A k \in 2..Len(text) :
               text[k] = LF[1] => text[k - 1] \notin (WhiteSpace \ {LF[1]})
        /\ \A k \in 1..(Len(text) - 2) :
               ~(text[k] = LF[1] /\ text[k + 1] = LF[1] /\ text[k + 2] = LF[1])
        /\ text # <<>> => (text[1] \notin WhiteSpace /\ text[Len(text)] \notin WhiteSpace)

\* normalizeCode was applied to a text with leading white space, a line
\* that ends in \r\n and a last line that ends in a space
NormalizePostconditionWitness ==
    /\ prev = <<Str(<<" ", "a">>) \o CR \o LF \o Str(<<"a", " ">>)>>
    /\ text = Str(<<"a">>) \o LF \o Str(<<"a">>)

\* c is two letters a with only spaces, \r and at least one \n between them
Sandwich(c) ==
    /\ Len(c) >= 3
    /\ c[1] = 97 /\ c[Len(c)] = 97
    /\ \A k \in 2..(Len(c) - 1) : c[k] \in {32, 10, 13}
    /\ \E k \in 2..(Len(c) - 1) : c[k] = 10

\* the lines between the first and the last line of c
blankLines(c) == Cardinality({k \in 1..Len(c) : c[k] = 10}) - 1

\* C18: between two lines that are not blank, normalizeCode leaves one
\* blank line where there was one, puts one blank line where there were two
\* or more, and leaves none where there was none.
BlankRunsCollapse ==
    (Len(prev) = 1 /\ Sandwich(prev[1])) =>
        /\ Sandwich(text)
        /\ blankLines(text) = IF blankLines(prev[1]) >= 1 THEN 1 ELSE 0
        /\ \A k \in 2..(Len(text) - 1) : text[k] = 10 => text[k - 1] \in {97, 10}

\* C18 as stated: a run of three or more blank lines becomes one blank line,
\* a run of one or two blank lines is left as it is.
BlankRunsCollapseFromThree ==
    (Len(prev) = 1 /\ Sandwich(prev[1])) =>
        blankLines(text) = IF blankLines(prev[1]) >= 3 THEN 1 ELSE blankLines(prev[1])

\* two blank lines, the second of them a space, have become one
BlankRunsCollapseWitness ==
    /\ prev = <<Str(<<"a">>) \o LF \o LF \o Str(<<" ">>) \o LF \o Str(<<"a">>)>>
    /\ text = Str(<<"a">>) \o LF \o LF \o Str(<<"a">>)

(***************************************************************************)
(* SpecCodec: encode applied to a bounded (code, lang) and decode applied  *)
(* to the token it returned, or decode applied to a token from elsewhere.  *)
(***************************************************************************)
Nineteen ==
    Str(<<"a", "b", "c", "d", "e", "f", "g", "h", "i", "j",
          "k", "l", "m", "n", "o", "p", "q", "r", "s">>)

\* fragments a code argument is made of: whitespace and line ends, the
\* separator, a letter, a digit, two dictionary patterns, two reserved
\* code points, a two-byte character and a run of nineteen letters
CodePieces ==
    {Str(<<" ">>), LF, CR, PIPE, Str(<<"a">>), Str(<<"1">>),
     Str(<<"n", "u", "l", "l">>), Str(<<" ", "=", " ">>),
     <<57355>>, <<57344>>, <<233>>, Nineteen}

RECURSIVE PiecesUpTo(_)
PiecesUpTo(n) ==
    IF n = 0 THEN {<<>>}
    ELSE LET shorter == PiecesUpTo(n - 1)
         IN  shorter \cup {s \o piece : s \in shorter, piece \in CodePieces}

Codes == PiecesUpTo(MaxPieces)

\* lang arguments: omitted, empty, identifiers of 2, 3 and 19 characters,
\* and two strings that are no identifiers (20 characters, a foreign
\* character)
LangInputs ==
    {UNDEFINED, <<>>, Str(<<"j", "s">>), Str(<<"c", "-", "1">>), Nineteen,
     Nineteen \o Str(<<"t">>), Str(<<"c", "+">>)}

Clock == 1793779200..(1793779200 + MaxTicks)

\* tokens that encode did not write: empty, foreign characters, a length of
\* 1 modulo 4, padding inside, the reserved block type, a stored block cut
\* short, a gzip header alone, a Huffman block, and members whose payload is
\* no UTF-8 or is empty
GivenTokens ==
    {<<>>,
     Str(<<"n", "o", "t", "-", "v", "a", "l", "i", "d", "-",
           "b", "a", "s", "e", "6", "4", "!", "!">>),
     Str(<<"A">>),
     Str(<<"A", "=", "A", "A">>),
     Str(<<"B", "w", "A", "A">>),
     Str(<<"A", "A", "A", "A">>),
     Str(<<"H", "4", "s", "I">>),
     Str(<<"A", "w", "A">>),
     toUrlSafeBase64(compressSync(<<255, 124, 97>>, 1793779200)),
     toUrlSafeBase64(compressSync(<<>>, 1793779200))}

ForeignOutcomes == {Thrown, Ok(<<>>), Ok(strToU8(Str(<<"a", "|", "b">>)))}

InitCodec ==
    /\ \/ /\ pc = "start"
          /\ code \in Codes
          /\ lang \in LangInputs
          /\ token = <<>>
          /\ foreignInflate = Thrown \* not consulted on what compressSync wrote
       \/ /\ pc = "given"
          /\ code = <<>>
          /\ lang = UNDEFINED
          /\ token \in GivenTokens
          /\ foreignInflate \in ForeignOutcomes
    /\ now \in Clock
    /\ decoded = NotRun
    /\ rounds = <<>>
    /\ NormalizeIdle
    /\ BinderIdle
    /\ EditorIdle
    /\ WorkerIdle

Encode ==
    /\ pc = "start"
    /\ token' = encode(code, lang, now)
    /\ pc' = "encoded"
    /\ UNCHANGED <<normalizeVars, binderVars, code, lang, foreignInflate, decoded, rounds, now, editorVars, workerVars>>

Decode ==
    /\ pc \in {"encoded", "given"}
    /\ decoded' = decode(token, foreignInflate)
    /\ pc' = IF pc = "encoded" THEN "roundtrip" ELSE "parsed"
    /\ UNCHANGED <<normalizeVars, binderVars, code, lang, token, foreignInflate, rounds, now, editorVars, workerVars>>

NextCodec == Encode \/ Decode

SpecCodec == InitCodec /\ [][NextCodec]_vars

(***************************************************************************)
(* SpecBinder: a page at a bounded location on which updateUrlHash is      *)
(* called with bounded arguments while the clock advances.                 *)
(***************************************************************************)
BinderCodes == {<<>>, Str(<<"a">>)}
BinderLangs == {UNDEFINED, Str(<<"j", "s">>)}

\* https://vanojx1.github.io
OriginLength == Len(Str(<<"h", "t", "t", "p", "s", ":", "/", "/", "v", "a", "n", "o", "j",
                          "x", "1", ".", "g", "i", "t", "h", "u", "b", ".", "i", "o">>))

\* /snippt-link/
ShortPathname == Len(Str(<<"/", "s", "n", "i", "p", "p", "t", "-", "l", "i", "n", "k", "/">>))

ShortestToken == Len(encode(<<>>, UNDEFINED, 1793779200))

\* the deployed pathname, and pathnames with which the URL of the shortest
\* token is as long as a limit, or one shorter
PathnameLengths ==
    {ShortPathname}
        \cup {limit - OriginLength - 1 - ShortestToken - d :
                  limit \in {URL_WARNING_LIMIT, URL_ERROR_LIMIT}, d \in {0, 1}}

\* the page is loaded without a fragment or with a token written earlier
InitialHashes == {<<>>, HASH \o encode(Str(<<"1">>), Str(<<"j", "s">>), 1793779100)}

InitBinder ==
    /\ \E n \in PathnameLengths, h \in InitialHashes :
           /\ window = [location |-> [originLength |-> OriginLength,
                                      pathnameLength |-> n, hash |-> h],
                        history |-> [length |-> 1]]
           /\ initialHash = h
    /\ calls = <<>>
    /\ now = 1793779200
    /\ NormalizeIdle
    /\ CodecIdle
    /\ EditorIdle
    /\ WorkerIdle

UpdateUrlHash ==
    /\ Len(calls) < MaxCalls
    /\ \E c \in BinderCodes, l \in BinderLangs :
           LET r == updateUrlHash(c, l, now, window)
           IN  /\ window' = r.window
               /\ calls' = Append(calls, [code |-> c, lang |-> l, time |-> now,
                                          status |-> r.status])
    /\ UNCHANGED <<normalizeVars, codecVars, initialHash, now, editorVars, workerVars>>

Tick ==
    /\ now < 1793779200 + MaxTicks
    /\ now' = now + 1
    /\ UNCHANGED <<normalizeVars, codecVars, binderVars, editorVars, workerVars>>

NextBinder == UpdateUrlHash \/ Tick

SpecBinder == InitBinder /\ [][NextBinder]_vars

(***************************************************************************)
(* SpecReader: the page of SpecBinder, on which readUrlHash is called      *)
(* before, between and after the calls of updateUrlHash.                   *)
(***************************************************************************)
ReadUrlHash ==
    /\ \E f \in ForeignOutcomes :
           /\ token' = slice(window.location.hash, 1)
           /\ foreignInflate' = f
           /\ decoded' = readUrlHash(window, f)
    /\ pc' = "read"
    /\ UNCHANGED <<normalizeVars, binderVars, code, lang, rounds, now, editorVars, workerVars>>

NextReader == (UpdateUrlHash /\ Len(calls) < MaxCallsRead) \/ Tick \/ ReadUrlHash

SpecReader == InitBinder /\ [][NextReader]_vars

(***************************************************************************)
(* SpecCycle: a snippet is encoded and decoded, and what decode returned   *)
(* is encoded and decoded again, while the clock advances.                 *)
(***************************************************************************)
CycleCodes ==
    {Str(<<"a">>),
     Str(<<"a", "|", "b">>),
     Str(<<"n", "u", "l", "l", " ">>),
     Str(<<" ", "a">>) \o LF \o LF \o LF \o Str(<<"b">>) \o CR \o LF,
     <<233>>,
     <<>>}

CycleLangs == {Str(<<"j", "s">>), Str(<<"c", "-", "1">>), Nineteen}

InitCycle ==
    /\ pc = "start"
    /\ code \in CycleCodes
    /\ lang \in CycleLangs
    /\ token = <<>>
    /\ foreignInflate = Thrown \* not consulted on what compressSync wrote
    /\ decoded = NotRun
    /\ rounds = <<>>
    /\ now = 1793779200
    /\ NormalizeIdle
    /\ BinderIdle
    /\ EditorIdle
    /\ WorkerIdle

\* the lang property of a record decode returned
langOf(d) == IF "lang" \in DOMAIN d THEN d.lang ELSE UNDEFINED

\* encode(d.code, d.lang) on the record d that decode returned
Reencode ==
    /\ pc = "roundtrip"
    /\ decoded # NULL
    /\ Len(rounds) < MaxRounds
    /\ rounds' = Append(rounds, [token |-> token, decoded |-> decoded])
    /\ token' = encode(decoded.code, langOf(decoded), now)
    /\ pc' = "encoded"
    /\ UNCHANGED <<normalizeVars, binderVars, code, lang, foreignInflate, decoded, now, editorVars, workerVars>>

NextCycle == Encode \/ Decode \/ Reencode \/ Tick

SpecCycle == InitCycle /\ [][NextCycle]_vars

(***************************************************************************)
(* SpecEditor: the page after init, with the events of the user, the       *)
(* timeouts and the completions of the language detection.                 *)
(***************************************************************************)
EditorCodes == {Str(<<"a">>), Str(<<"b">>)}

\* the page is loaded without a fragment or with the token of a snippet
EditorHashes == {<<>>, HASH \o encode(Str(<<"a">>), Javascript, 1793779100)}

\* the deployed pathname, and one with which the URL of the code a in
\* plaintext is as long as the error limit
EditorPathnames ==
    {ShortPathname,
     URL_ERROR_LIMIT - OriginLength - 1 - Len(encode(Str(<<"a">>), Plaintext, 1793779200))}

\* the clock is observed in steps of half the debounce delay
ClockStep == DebounceDelay \div 2

\* init with isReadOnly = !!urlData in the place of !!urlData?.code
initReadOnlyOnData(urlData, detected) ==
    LET initialCode == IF urlData # NULL /\ Truthy(urlData.code)
                       THEN urlData.code ELSE <<>>
        language == IF urlData # NULL /\ Truthy(langOf(urlData)) THEN urlData.lang
                    ELSE IF Truthy(initialCode) THEN detected
                    ELSE Plaintext
    IN  [isReadOnly |-> urlData # NULL,
         currentLanguage |-> language,
         editor |-> [value |-> initialCode, language |-> language]]

\* init, from what readUrlHash returned: the mode, the language and the
\* editor that it creates
init(urlData, detected) ==
    LET initialCode == IF urlData # NULL /\ Truthy(urlData.code)
                       THEN urlData.code ELSE <<>>
        language == IF urlData # NULL /\ Truthy(langOf(urlData)) THEN urlData.lang
                    ELSE IF Truthy(initialCode) THEN detected
                    ELSE Plaintext
    IN  [isReadOnly |-> (urlData # NULL /\ Truthy(urlData.code)),
         currentLanguage |-> language,
         editor |-> [value |-> initialCode, language |-> language]]

\* the page is as init left it
Loaded(page) ==
    /\ isReadOnly = page.isReadOnly
    /\ currentLanguage = page.currentLanguage
    /\ editor = page.editor

\* a call of updateUrlHash that returned r has changed the window and is
\* recorded
UrlUpdated(r, c, l, origin, started) ==
    /\ window' = r.window
    /\ calls' = Append(calls, [code |-> c, lang |-> l, time |-> now,
                               status |-> r.status, origin |-> origin,
                               started |-> started])

\* where init leaves a page that was loaded with one of the fragments hashes
LoadedFrom(hashes) ==
    /\ \E n \in EditorPathnames, h \in hashes, detected \in Languages :
           LET win == [location |-> [originLength |-> OriginLength,
                                     pathnameLength |-> n, hash |-> h],
                       history |-> [length |-> 1]]
           IN  /\ window = win
               /\ initialHash = h
               /\ Loaded(init(readUrlHash(win, Thrown), detected))
    /\ lastTapTime = 0 - DoubleTapWindow \* 0 in the source, long before the page was loaded
    /\ timer = UNDEFINED
    /\ timeouts = {}
    /\ detections = {}
    /\ elapsed = 0
    /\ burst = [lastChange |-> 0 - DebounceDelay, starts |-> 0]
    /\ uiEvents = 0
    /\ calls = <<>>
    /\ now = 1793779200
    /\ NormalizeIdle
    /\ CodecIdle
    /\ WorkerIdle

InitEditor == LoadedFrom(EditorHashes)

\* the user changes the content: onDidChangeModelContent calls the debounced
\* handleCodeChange
ChangeContent ==
    /\ uiEvents < MaxEvents
    /\ ~isReadOnly
    /\ elapsed + DebounceDelay <= ClockStep * MaxSteps
    /\ \E c \in EditorCodes :
           /\ c # editor.value
           /\ editor' = [editor EXCEPT !.value = c]
    /\ LET d == debounce(timer, timeouts, elapsed, DebounceDelay)
       IN  timer' = d.timer /\ timeouts' = d.timeouts
    /\ burst' = [lastChange |-> elapsed, starts |-> 0]
    /\ uiEvents' = uiEvents + 1
    /\ UNCHANGED <<normalizeVars, codecVars, binderVars, isReadOnly, currentLanguage,
                   lastTapTime, detections, elapsed, now, workerVars>>

\* a timeout fires: the body of handleCodeChange runs up to its await
HandleCodeChange ==
    /\ \E handle \in timeouts :
           /\ elapsed >= handle.due
           /\ timeouts' = timeouts \ {handle}
    /\ detections' = IF ~isReadOnly /\ editor # NULL
                     THEN detections \cup {[code |-> editor.value, started |-> elapsed]}
                     ELSE detections
    /\ burst' = [burst EXCEPT !.starts = @ + 1]
    /\ UNCHANGED <<normalizeVars, codecVars, binderVars, editor, isReadOnly, currentLanguage,
                   lastTapTime, timer, elapsed, uiEvents, now, workerVars>>

\* detectLanguageFromContent resolves for one of the runs that await it: the
\* rest of the body of handleCodeChange
LanguageDetected ==
    \E run \in detections, detected \in Languages :
        /\ detections' = detections \ {run}
        /\ currentLanguage' = detected
        /\ editor' = IF detected # currentLanguage
                     THEN [editor EXCEPT !.language = detected] ELSE editor
        /\ UrlUpdated(updateUrlHash(run.code, detected, now, window),
                      run.code, detected, "handleCodeChange", run.started)
        /\ UNCHANGED <<normalizeVars, codecVars, initialHash, isReadOnly, lastTapTime,
                       timer, timeouts, elapsed, burst, uiEvents, now, workerVars>>

\* the user selects another language: the change listener of the selector
SelectLanguage ==
    /\ uiEvents < MaxEvents
    /\ \E newLang \in Languages :
           /\ newLang # currentLanguage
           /\ currentLanguage' = newLang
           /\ IF editor # NULL
              THEN /\ editor' = [editor EXCEPT !.language = newLang]
                   /\ UrlUpdated(updateUrlHash(editor.value, newLang, now, window),
                                 editor.value, newLang, "selector", elapsed)
              ELSE UNCHANGED <<editor, window, calls>>
    /\ uiEvents' = uiEvents + 1
    /\ UNCHANGED <<normalizeVars, codecVars, initialHash, isReadOnly, lastTapTime, timer,
                   timeouts, detections, elapsed, burst, now, workerVars>>

\* a tap that also writes the URL
HandleTapWriting ==
    /\ uiEvents < MaxEvents
    /\ LET t == handleTap(isReadOnly, lastTapTime, elapsed)
           r == updateUrlHash(editor.value, currentLanguage, now, window)
       IN  /\ isReadOnly' = t.isReadOnly /\ lastTapTime' = t.lastTapTime
           /\ window' = r.window
           /\ calls' = Append(calls, [code |-> editor.value, lang |-> currentLanguage,
                                      time |-> now, status |-> r.status,
                                      origin |-> "handleTap", started |-> elapsed])
    /\ uiEvents' = uiEvents + 1
    /\ UNCHANGED <<normalizeVars, codecVars, initialHash, editor, currentLanguage, timer,
                   timeouts, detections, elapsed, burst, now, workerVars>>

\* a click or touchend on the container
HandleTap ==
    /\ uiEvents < MaxEvents
    /\ LET t == handleTap(isReadOnly, lastTapTime, elapsed)
       IN  isReadOnly' = t.isReadOnly /\ lastTapTime' = t.lastTapTime
    /\ uiEvents' = uiEvents + 1
    /\ UNCHANGED <<normalizeVars, codecVars, binderVars, editor, currentLanguage, timer,
                   timeouts, detections, elapsed, burst, now, workerVars>>

\* the window is resized: editor.layout(), which changes nothing that the
\* page reads
Resize ==
    /\ uiEvents < MaxEvents
    /\ uiEvents' = uiEvents + 1
    /\ UNCHANGED <<normalizeVars, codecVars, binderVars, editor, isReadOnly, currentLanguage,
                   lastTapTime, timer, timeouts, detections, elapsed, burst, now, workerVars>>

\* time passes
Elapse ==
    /\ elapsed < ClockStep * MaxSteps
    /\ elapsed' = elapsed + ClockStep
    /\ now' = 1793779200 + (elapsed' \div 1000)
    /\ UNCHANGED <<normalizeVars, codecVars, binderVars, editor, isReadOnly, currentLanguage,
                   lastTapTime, timer, timeouts, detections, burst, uiEvents, workerVars>>

NextEditor ==
    \/ ChangeContent
    \/ HandleCodeChange
    \/ LanguageDetected
    \/ SelectLanguage
    \/ HandleTap
    \/ Resize
    \/ Elapse

SpecEditor == InitEditor /\ [][NextEditor]_vars

(***************************************************************************)
(* SpecLoad: the page loaded with each kind of fragment, and then used     *)
(* for a bounded number of events.                                         *)
(***************************************************************************)
\* fragments of location.hash at load: none, a lone #, the tokens of a
\* snippet with and without lang, a fragment atob rejects, one that
\* decompressSync rejects, the token of an empty code with a lang, and the
\* token of an empty text
LoadHashes ==
    {<<>>,
     HASH,
     HASH \o encode(Str(<<"a">>), Javascript, 1793779100),
     HASH \o encode(Str(<<"a", " ", "b">>), UNDEFINED, 1793779100),
     HASH \o Str(<<"A">>),
     HASH \o Str(<<"A", "A", "A", "A">>),
     HASH \o encode(<<>>, Javascript, 1793779100),
     HASH \o toUrlSafeBase64(compressSync(<<>>, 1793779100))}

InitLoad == LoadedFrom(LoadHashes)

NextLoad ==
    \/ (ChangeContent /\ uiEvents < MaxLoadEvents)
    \/ HandleCodeChange
    \/ LanguageDetected
    \/ (SelectLanguage /\ uiEvents < MaxLoadEvents)
    \/ (HandleTap /\ uiEvents < MaxLoadEvents)
    \/ (Resize /\ uiEvents < MaxLoadEvents)
    \/ Elapse

SpecLoad == InitLoad /\ [][NextLoad]_vars

(***************************************************************************)
(* SpecWorker: the service worker of sw.js is installed and activated and  *)
(* then receives a bounded number of fetch events, while the network       *)
(* answers its fetch calls in any order.                                   *)
(***************************************************************************)
CACHE_NAME == Str(<<"s", "n", "i", "p", "p", "t", "-", "l", "i", "n", "k", "-", "v", "1">>)

\* a cache that an earlier version of the worker left
OldCacheName == Str(<<"s", "n", "i", "p", "p", "t", "-", "l", "i", "n", "k", "-", "v", "0">>)

\* the prefix of the cache names that the activate handler deletes
CachePrefix == Str(<<"s", "n", "i", "p", "p", "t", "-">>)

\* self.location.origin
WorkerOrigin ==
    Str(<<"h", "t", "t", "p", "s", ":", "/", "/", "v", "a", "n", "o", "j", "x", "1", ".", "g", "i", "t", "h", "u", "b", ".", "i", "o">>)

\* the URL that './' resolves to from the location of the worker
RootUrl == WorkerOrigin \o Str(<<"/", "s", "n", "i", "p", "p", "t", "-", "l", "i", "n", "k", "/">>)

ScriptUrl == RootUrl \o Str(<<"a", ".", "j", "s">>)

\* a URL of another host
FontUrl == Str(<<"h", "t", "t", "p", "s", ":", "/", "/", "f", "o", "n", "t", "s", ".", "g", "s", "t", "a", "t", "i", "c", ".", "c", "o", "m", "/", "f">>)

\* a URL of the host of the worker at another port
OtherPortUrl == WorkerOrigin \o Str(<<":", "8", "0", "8", "0", "/", "a", ".", "j", "s">>)

\* s.startsWith(p)
startsWith(s, p) == Len(s) >= Len(p) /\ SubSeq(s, 1, Len(p)) = p

\* the origin of a URL: its scheme, host and port
originOf(url) ==
    LET sep == Str(<<":", "/", "/">>)
        i == indexOf(url, sep)
        rest == substring(url, i + Len(sep), Len(url))
        j == indexOf(rest, Str(<<"/">>))
    IN  IF j = -1 THEN url ELSE substring(url, 0, i + Len(sep) + j)

\* the requests of the fetch events: a navigation to the page, a script of
\* the page, a form posted to the page, a font of another host, and
\* requests to the host of the worker at another port
WorkerRequests ==
    {[method |-> "GET", url |-> RootUrl, mode |-> "navigate"],
     [method |-> "GET", url |-> ScriptUrl, mode |-> "no-cors"],
     [method |-> "POST", url |-> RootUrl, mode |-> "navigate"],
     [method |-> "GET", url |-> FontUrl, mode |-> "no-cors"],
     [method |-> "GET", url |-> OtherPortUrl, mode |-> "cors"],
     [method |-> "GET", url |-> OtherPortUrl, mode |-> "no-cors"]}

\* bodies a server may answer with
Bodies == {"v1", "v2"}

Rejected == [rejected |-> TRUE]

\* what caches.match resolves with when no cache holds the request
NoMatch == [undefined |-> TRUE]

\* the answer of an event whose respondWith promise has not settled, and of
\* one whose promise was rejected with the error Offline
Pending == [pending |-> TRUE]
Offline == [error |-> "Offline"]

\* what fetch(request) may settle with: a response, which is opaque for a
\* request without CORS to another origin, or a rejection
Network(request) ==
    {Rejected} \cup
        IF originOf(request.url) # WorkerOrigin /\ request.mode = "no-cors"
        THEN {[ok |-> FALSE, status |-> 0, body |-> "opaque"]}
        ELSE {[ok |-> TRUE, status |-> 200, body |-> b] : b \in Bodies}
                 \cup {[ok |-> FALSE, status |-> 404, body |-> "not found"]}

\* caches.match(url): the response of the first cache that holds the URL
match(cs, url) ==
    IF \E n \in DOMAIN cs : url \in DOMAIN cs[n]
    THEN cs[CHOOSE n \in DOMAIN cs : url \in DOMAIN cs[n]][url].response
    ELSE NoMatch

\* caches.open(name), which creates the cache when it is missing, and
\* cache.put(request, response) on it
put(cs, name, request, response) ==
    LET cache == IF name \in DOMAIN cs THEN cs[name] ELSE <<>>
        entry == [request |-> request, response |-> response]
    IN  [n \in DOMAIN cs \cup {name} |->
            IF n = name
            THEN [u \in DOMAIN cache \cup {request.url} |->
                     IF u = request.url THEN entry ELSE cache[u]]
            ELSE cs[n]]

\* the CacheStorage when the worker is installed: empty, or with the cache
\* of an earlier version, or with that and the cache of this version
InitialCaches ==
    LET page == [request |-> [method |-> "GET", url |-> RootUrl, mode |-> "navigate"],
                 response |-> [ok |-> TRUE, status |-> 200, body |-> "v1"]]
        old == put(<<>>, OldCacheName, page.request, page.response)
    IN  {<<>>, old, put(old, CACHE_NAME, page.request, page.response)}

InitWorker ==
    /\ swState = "installing"
    /\ caches \in InitialCaches
    /\ fetching = {}
    /\ putting = {}
    /\ handled = <<>>
    /\ now = 0
    /\ NormalizeIdle
    /\ CodecIdle
    /\ BinderIdle
    /\ EditorIdle

\* the install listener: self.skipWaiting()
Install ==
    /\ swState = "installing"
    /\ swState' = "installed"
    /\ UNCHANGED <<normalizeVars, codecVars, binderVars, editorVars, now,
                   caches, fetching, putting, handled>>

\* the activate listener: the caches of other versions are deleted before
\* the worker receives fetch events
Activate ==
    /\ swState = "installed"
    /\ swState' = "activated"
    /\ caches' = [n \in {name \in DOMAIN caches :
                            ~(startsWith(name, CachePrefix) /\ name # CACHE_NAME)} |->
                     caches[n]]
    /\ UNCHANGED <<normalizeVars, codecVars, binderVars, editorVars, now,
                   fetching, putting, handled>>

\* the fetch listener, up to the calls of fetch that it leaves pending
Fetch ==
    /\ swState = "activated"
    /\ Len(handled) < MaxFetchEvents
    /\ \E request \in WorkerRequests :
           LET id == Len(handled) + 1
               cached == match(caches, request.url)
               skipped == \/ request.method # "GET"
                          \/ ~startsWith(request.url, WorkerOrigin)
           IN  IF skipped
               THEN /\ handled' = Append(handled, [request |-> request, intercepted |-> FALSE])
                    /\ UNCHANGED fetching
               ELSE IF cached # NoMatch
               THEN /\ handled' = Append(handled, [request |-> request, intercepted |-> TRUE,
                                                   cached |-> cached, answer |-> cached])
                    /\ fetching' = fetching \cup
                           {[id |-> id, request |-> request, kind |-> "refresh"]}
               ELSE /\ handled' = Append(handled, [request |-> request, intercepted |-> TRUE,
                                                   cached |-> NoMatch, answer |-> Pending])
                    /\ fetching' = fetching \cup
                           {[id |-> id, request |-> request, kind |-> "fill"]}
    /\ UNCHANGED <<normalizeVars, codecVars, binderVars, editorVars, now,
                   swState, caches, putting>>

\* what the event of a fetch that filled the cache is answered with when the
\* fetch settled with outcome
answerOf(cs, request, outcome) ==
    IF outcome # Rejected THEN outcome
    ELSE IF request.mode = "navigate" THEN match(cs, RootUrl)
    ELSE Offline

\* a fetch call of the handler settles: the then and catch callbacks
Settle ==
    /\ \E f \in fetching : \E outcome \in Network(f.request) :
           /\ fetching' = fetching \ {f}
           /\ putting' = IF outcome # Rejected /\ outcome.ok
                         THEN putting \cup {[id |-> f.id, request |-> f.request,
                                             response |-> outcome]}
                         ELSE putting
           /\ handled' = IF f.kind = "fill"
                         THEN [handled EXCEPT ![f.id].answer =
                                   answerOf(caches, f.request, outcome)]
                         ELSE handled
    /\ UNCHANGED <<normalizeVars, codecVars, binderVars, editorVars, now, swState, caches>>

\* caches.open(CACHE_NAME) resolves: cache.put(request, response)
Put ==
    /\ \E p \in putting :
           /\ putting' = putting \ {p}
           /\ caches' = put(caches, CACHE_NAME, p.request, p.response)
    /\ UNCHANGED <<normalizeVars, codecVars, binderVars, editorVars, now,
                   swState, fetching, handled>>

NextWorker == Install \/ Activate \/ Fetch \/ Settle \/ Put

SpecWorker == InitWorker /\ [][NextWorker]_vars

(***************************************************************************)
(* Properties of the codec.                                                *)
(***************************************************************************)
\* the code points U+E000..U+E01E that the dictionary reserves
Reserved == 57344..57374

NoReserved(c) == \A k \in 1..Len(c) : c[k] \notin Reserved

\* l matches ^[A-Za-z][A-Za-z0-9-]{0,18}$
ValidLang(l) ==
    /\ l # UNDEFINED
    /\ Len(l) >= 1 /\ Len(l) <= 19
    /\ IsLetter(l[1])
    /\ \A k \in 2..Len(l) : IsLetter(l[k]) \/ IsDigit(l[k]) \/ l[k] = MINUS[1]

\* C1: for a code without reserved code points and a valid lang, decoding
\* the token of encode gives a record with that lang and the normalized code.
RoundTripWithLang ==
    (pc = "roundtrip" /\ NoReserved(code) /\ ValidLang(lang))
        => decoded = [lang |-> lang, code |-> normalizeCode(code)]

\* a round trip with the longest valid lang, on a code that both the
\* normalization and the dictionary stage change
RoundTripWithLangWitness ==
    /\ pc = "roundtrip"
    /\ lang = Nineteen
    /\ code = Str(<<"n", "u", "l", "l", " ">>)
    /\ decoded = [lang |-> Nineteen, code |-> Str(<<"n", "u", "l", "l">>)]

\* C2: for a code encoded without a lang, decoding the token gives a record
\* without lang whose code is the normalized code, also when the code
\* contains the separator.
RoundTripWithoutLang ==
    (pc = "roundtrip" /\ lang = UNDEFINED) => decoded = [code |-> normalizeCode(code)]

\* C4: decode returns null or a record, never what a stage threw; it returns
\* null for the empty token, for a token atob rejects and for a token whose
\* bytes decompressSync rejects.
DecodeFailsClosed ==
    pc \in {"parsed", "roundtrip"} =>
        LET bytes == fromUrlSafeBase64(token)
        IN  /\ decoded = NULL \/ DOMAIN decoded \in {{"code"}, {"code", "lang"}}
            /\ token = <<>> => decoded = NULL
            /\ ~bytes.ok => decoded = NULL
            /\ bytes.ok => (~decompressSync(bytes.val, foreignInflate).ok => decoded = NULL)

\* decode has returned null for a well-formed base64 token whose bytes start
\* a block of the reserved type
DecodeFailsClosedWitness ==
    /\ pc = "parsed"
    /\ token = Str(<<"B", "w", "A", "A">>)
    /\ fromUrlSafeBase64(token) = Ok(<<7, 0, 0>>)
    /\ decoded = NULL

UrlSafeCharacter(c) == IsLetter(c) \/ IsDigit(c) \/ c = MINUS[1] \/ c = UNDERSCORE[1]

\* C9: a token of encode consists of letters, digits, - and _ only.
TokenIsUrlSafe ==
    pc \in {"encoded", "roundtrip"} => \A k \in 1..Len(token) : UrlSafeCharacter(token[k])

\* a token in which + and / were both replaced and padding was dropped
TokenIsUrlSafeWitness ==
    /\ pc = "encoded"
    /\ \E k \in 1..Len(token) : token[k] = MINUS[1]
    /\ \E k \in 1..Len(token) : token[k] = UNDERSCORE[1]
    /\ Len(token) % 4 # 0

\* p is the index of the first separator of t
FirstPipe(t, p) == t[p + 1] = PIPE[1] /\ \A q \in 1..p : t[q] # PIPE[1]

\* s matches ^[A-Za-z][A-Za-z0-9-]*$
MatchesIdentifier(s) ==
    /\ s # <<>>
    /\ IsLetter(s[1])
    /\ \A k \in 2..Len(s) : IsLetter(s[k]) \/ IsDigit(s[k]) \/ s[k] = MINUS[1]

\* the decompressed text of a decode that got that far
Decompressed ==
    LET bytes == fromUrlSafeBase64(token)
        inflated == IF bytes.ok THEN decompressSync(bytes.val, foreignInflate) ELSE Thrown
    IN  IF pc \in {"parsed", "roundtrip"} /\ token # <<>> /\ inflated.ok
        THEN Ok(strFromU8(inflated.val))
        ELSE Thrown

\* decoded is what the rule of the language prefix gives on the text t
SplitRule(t) ==
    LET splits == {p \in 1..19 : /\ p + 1 <= Len(t)
                                 /\ FirstPipe(t, p)
                                 /\ MatchesIdentifier(SubSeq(t, 1, p))}
    IN  /\ \A p \in splits :
               decoded = [lang |-> SubSeq(t, 1, p), code |-> SubSeq(t, p + 2, Len(t))]
        /\ splits = {} => decoded = [code |-> t]

Token(call) == encode(call.code, call.lang, call.time)

\* C5: the length of a status is the length of origin, pathname, # and the
\* token; 2000 gives neither flag, 2001 a warning, 8000 a warning and no
\* error, 8001 an error; a warning is reported exactly for a length above
\* 2000 and up to 8000, an error exactly for a length above 8000.
StatusBoundaries ==
    \A i \in 1..Len(calls) :
        LET st == calls[i].status
        IN  /\ st.length = window.location.originLength + window.location.pathnameLength
                               + 1 + Len(Token(calls[i]))
            /\ st.length = 2000 => ~st.isWarning /\ ~st.isError
            /\ st.length = 2001 => st.isWarning
            /\ st.length = 8000 => st.isWarning /\ ~st.isError
            /\ st.length = 8001 => st.isError
            /\ st.isWarning <=> (st.length > 2000 /\ st.length <= 8000)
            /\ st.isError <=> st.length > 8000

\* one page has seen a URL of 8000 and a URL of 8001 characters
StatusBoundariesWitness ==
    \E i, j \in 1..Len(calls) :
        /\ calls[i].status = [length |-> 8000, isWarning |-> TRUE, isError |-> FALSE]
        /\ calls[j].status = [length |-> 8001, isWarning |-> FALSE, isError |-> TRUE]

\* the call that a step adds to calls
IsCall == Len(calls') = Len(calls) + 1
LastCall == calls[Len(calls)]

\* C6: a call of updateUrlHash whose URL is longer than 8000 characters
\* returns a status with isError and leaves location and history as they were.
WriteSuppressed ==
    [][(IsCall /\ LastCall'.status.length > 8000)
           => (LastCall'.status.isError /\ window' = window)]_vars

\* a call was suppressed on a page that still shows the fragment of an
\* earlier call
WriteSuppressedWitness ==
    /\ Len(calls) >= 2
    /\ LastCall.status.isError
    /\ ~calls[Len(calls) - 1].status.isError
    /\ window.location.hash = HASH \o Token(calls[Len(calls) - 1])

\* C7: a call of updateUrlHash whose URL is not longer than 8000 characters
\* leaves the fragment equal to the token of its arguments and the number of
\* history entries unchanged.
WriteReplaces ==
    [][(IsCall /\ LastCall'.status.length <= 8000)
           => /\ window'.location.hash = HASH \o Token(LastCall')
              /\ window'.history.length = window.history.length]_vars

\* a second call has replaced the fragment of the first
WriteReplacesWitness ==
    /\ Len(calls) >= 2
    /\ ~LastCall.status.isError
    /\ ~calls[Len(calls) - 1].status.isError
    /\ Token(calls[Len(calls) - 1]) # Token(LastCall)
    /\ window.location.hash = HASH \o Token(LastCall)
    /\ window.history.length = 1

\* the calls that were not in error
Written == {i \in 1..Len(calls) : ~calls[i].status.isError}

\* C8: the fragment is the token of the most recent call that was not in
\* error, and the fragment the page was loaded with when there is none.
LastWriteWins ==
    window.location.hash =
        IF Written = {} THEN initialHash ELSE HASH \o Token(calls[Max(Written)])

\* after a call that wrote, a different call that wrote and a call in error,
\* the fragment is that of the second call
LastWriteWinsWitness ==
    /\ Len(calls) = 3
    /\ Written = {1, 2}
    /\ Token(calls[1]) # Token(calls[2])
    /\ window.location.hash = HASH \o Token(calls[2])

\* a step that is a call of readUrlHash
IsRead == pc' = "read" /\ calls' = calls /\ now' = now

\* C11: readUrlHash returns what decode returns on the fragment without its
\* leading #; called after a call of updateUrlHash that was not in error, it
\* returns what decode returns on the token of that call.
ReadDecodesFragment ==
    [][IsRead =>
           LET hash == window.location.hash
               fragment == IF hash = <<>> THEN <<>> ELSE Tail(hash)
           IN  /\ decoded' = decode(fragment, foreignInflate')
               /\ (calls # <<>> /\ ~LastCall.status.isError)
                      => decoded' = decode(Token(LastCall), foreignInflate')]_vars

\* readUrlHash has returned the snippet that the call before it wrote, on a
\* page that was loaded with another fragment
ReadDecodesFragmentWitness ==
    /\ pc = "read"
    /\ Len(calls) = 1
    /\ ~LastCall.status.isError
    /\ initialHash # <<>>
    /\ token = Token(LastCall)
    /\ decoded = [lang |-> Str(<<"j", "s">>), code |-> Str(<<"a">>)]

\* C12: when decode returns a record for the token of a code and a valid
\* lang, encode of that record gives the same token again, and decode of it
\* gives the same record again.
CycleConverges ==
    rounds # <<>> =>
        /\ pc \in {"encoded", "roundtrip"} => token = rounds[1].token
        /\ pc = "roundtrip" => decoded = rounds[1].decoded

\* the record is the same in every round
CycleRecordConverges ==
    (rounds # <<>> /\ pc = "roundtrip") => decoded = rounds[1].decoded

\* the token is the same but for the four bytes of the time in the gzip
\* header, which are bytes 5 to 8 of the member and lie in the characters 6
\* to 11 of the token
CycleTokenConvergesButTime ==
    (rounds # <<>> /\ pc \in {"encoded", "roundtrip"}) =>
        /\ Len(token) = Len(rounds[1].token)
        /\ \A k \in 1..Len(token) : k \notin 6..11 => token[k] = rounds[1].token[k]

(***************************************************************************)
(* Properties of the page.                                                 *)
(***************************************************************************)
\* a run of handleCodeChange that started after the given run has called
\* updateUrlHash
NewerHasWritten(run) ==
    \E i \in 1..Len(calls) :
        calls[i].origin = "handleCodeChange" /\ calls[i].started > run.started

\* C13: when the detection of a run of handleCodeChange completes after a
\* run that started later has written, the older run neither sets
\* currentLanguage nor calls updateUrlHash.
StaleDetectionDiscarded ==
    [][\A run \in detections :
           (run \notin detections' /\ NewerHasWritten(run))
               => (currentLanguage' = currentLanguage /\ calls' = calls)]_vars

\* C14: the fragment changes only in a call of updateUrlHash, and
\* updateUrlHash is called only by the rest of handleCodeChange after its
\* await and by the change listener of the language selector; a tap, a
\* resize, a change of the content and the start of handleCodeChange leave
\* the fragment as it is and call nothing.
FragmentWriters ==
    [][/\ window' # window =>
              /\ IsCall
              /\ window'.location.hash = HASH \o Token(LastCall')
       /\ IsCall =>
              /\ LastCall'.origin \in {"handleCodeChange", "selector"}
              /\ LastCall'.origin = "handleCodeChange" => detections' # detections
              /\ LastCall'.origin = "selector" => currentLanguage' # currentLanguage
       /\ (\/ uiEvents' # uiEvents /\ currentLanguage' = currentLanguage
           \/ timeouts' # timeouts)
              => (window' = window /\ calls' = calls)]_vars

\* C14 as stated: the fragment changes, and updateUrlHash is called, only
\* in the debounced handler of the change of the content.
FragmentWrittenByHandlerOnly ==
    [][(window' # window \/ IsCall) => LastCall'.origin = "handleCodeChange"]_vars

\* in read-only mode, after a tap, the language selector has replaced the
\* fragment the page was loaded with
FragmentWritersWitness ==
    /\ isReadOnly
    /\ lastTapTime >= 0
    /\ calls # <<>>
    /\ LastCall.origin = "selector"
    /\ window.location.hash = HASH \o Token(LastCall)
    /\ window.location.hash # initialHash

\* C15: the body of handleCodeChange starts only when 1500 ms have passed
\* since the last change of the content; at most one timeout is pending;
\* after a change, either the one timeout set by the last change is pending
\* and the body has not started since, or none is pending and the body has
\* started exactly once since.
DebounceQuietPeriod ==
    [][/\ burst'.starts > burst.starts => elapsed >= burst.lastChange + 1500
       /\ Cardinality(timeouts') <= 1
       /\ burst'.lastChange >= 0 =>
              IF timeouts' = {}
              THEN burst'.starts = 1
              ELSE /\ burst'.starts = 0
                   /\ timeouts' = {[set |-> burst'.lastChange,
                                    due |-> burst'.lastChange + 1500]}]_vars

\* after two changes, the second 750 ms after the first, the body has
\* started once, 1500 ms after the second
DebounceQuietPeriodWitness ==
    /\ uiEvents = 2
    /\ lastTapTime < 0
    /\ calls = <<>>
    /\ burst = [lastChange |-> 750, starts |-> 1]
    /\ timer = [set |-> 750, due |-> 2250]
    /\ timeouts = {}
    /\ detections = {[code |-> editor.value, started |-> 2250]}

\* the URL of the content and language of the editor is within the limit
ContentFitsUrl ==
    window.location.originLength + window.location.pathnameLength + 1
        + Len(encode(editor.value, currentLanguage, now)) <= 8000

\* the fragment is the token of the content and language of the editor, as
\* encode gave it at the time of the last call of updateUrlHash
Persisted ==
    /\ calls # <<>>
    /\ window.location.hash = HASH \o encode(editor.value, currentLanguage, LastCall.time)

\* C16: in editing mode, once the content has changed and every timeout
\* has fired and every detection has completed, the fragment is the token of
\* the content and language of the editor, when the URL of that token is
\* within the limit.
SettledPersisted ==
    (/\ burst.lastChange >= 0
     /\ timeouts = {}
     /\ detections = {}
     /\ ~isReadOnly
     /\ ContentFitsUrl) => Persisted


\* t with each reserved code point replaced by the pattern of its
\* dictionary entry
Expand(t) ==
    flatten([k \in 1..Len(t) |->
                IF t[k] \in Reserved
                THEN DICTIONARY[CHOOSE i \in 1..Len(DICTIONARY) : DICTIONARY[i][2] = <<t[k]>>][1]
                ELSE <<t[k]>>])

\* C20: for a code that holds a reserved code point, encoded with a valid
\* lang, decode returns a record with that lang whose code is not the
\* normalized code: it is the normalized code with each reserved code point
\* replaced by the pattern of its dictionary entry.
ReservedExpanded ==
    (pc = "roundtrip" /\ ~NoReserved(code) /\ ValidLang(lang)) =>
        LET normal == normalizeCode(code)
        IN  /\ decoded # NULL
            /\ decoded = [lang |-> lang, code |-> Expand(normal)]
            /\ decoded.code # normal

\* a code of U+E00B twice has come back as "nullnull"
ReservedExpandedWitness ==
    /\ pc = "roundtrip"
    /\ lang = Str(<<"j", "s">>)
    /\ code = <<57355, 57355>>
    /\ decoded = [lang |-> lang, code |-> Str(<<"n", "u", "l", "l", "n", "u", "l", "l">>)]

(***************************************************************************)
(* SpecDictionary: applyDictionary, then reverseDictionary on its result.  *)
(***************************************************************************)
\* pieces whose concatenations give dictionary patterns, patterns that
\* overlap ("() {" and ") {", " = " and " === ", four spaces within five),
\* text that is no pattern, and a reserved code point
DictionaryPieces ==
    {Str(<<" ">>), Str(<<" ", " ">>), Str(<<" ", " ", " ", " ">>),
     Str(<<"(", ")">>), Str(<<" ", "{">>), Str(<<")", " ", "{">>),
     Str(<<" ", "=">>), Str(<<"=", "=", " ">>), Str(<<" ", "=", " ">>),
     Str(<<"n", "u">>), Str(<<"l", "l">>), Str(<<"i", "f", " ", "(">>),
     Str(<<"a">>), <<57355>>}

RECURSIVE DictionaryTextsUpTo(_)
DictionaryTextsUpTo(n) ==
    IF n = 0 THEN {<<>>}
    ELSE LET shorter == DictionaryTextsUpTo(n - 1)
         IN  shorter \cup {t \o piece : t \in shorter, piece \in DictionaryPieces}

InitDictionary ==
    /\ text \in DictionaryTextsUpTo(MaxPieces)
    /\ prev = <<>>
    /\ now = 0
    /\ CodecIdle
    /\ BinderIdle
    /\ EditorIdle
    /\ WorkerIdle

ApplyDictionary ==
    /\ Len(prev) = 0
    /\ prev' = Append(prev, text)
    /\ text' = applyDictionary(text)
    /\ UNCHANGED <<codecVars, binderVars, now, editorVars, workerVars>>

ReverseDictionary ==
    /\ Len(prev) = 1
    /\ prev' = Append(prev, text)
    /\ text' = reverseDictionary(text)
    /\ UNCHANGED <<codecVars, binderVars, now, editorVars, workerVars>>

NextDictionary == ApplyDictionary \/ ReverseDictionary

SpecDictionary == InitDictionary /\ [][NextDictionary]_vars

\* t holds the pattern of a dictionary entry
HoldsPattern(t) == \E i \in 1..Len(DICTIONARY) : indexOf(t, DICTIONARY[i][1]) # -1

\* C19: for a text without reserved code points, reverseDictionary of
\* applyDictionary of the text is the text; what applyDictionary returns
\* holds no pattern of the dictionary.
DictionaryInvertible ==
    /\ (Len(prev) >= 1 /\ NoReserved(prev[1])) =>
           ~HoldsPattern(IF Len(prev) = 1 THEN text ELSE prev[2])
    /\ (Len(prev) = 2 /\ NoReserved(prev[1])) => text = prev[1]

\* "() {" also holds ") {", a later entry: the earlier entry was applied,
\* and reversed
DictionaryInvertibleWitness ==
    /\ prev = <<Str(<<"(", ")", " ", "{">>), <<57360>>>>
    /\ text = Str(<<"(", ")", " ", "{">>)

(***************************************************************************)
(* Properties of the page at load and of its mode.                         *)
(***************************************************************************)
\* the page shows what the decoded fragment d asks for
SeededFrom(d) ==
    IF d # NULL /\ d.code # <<>>
    THEN isReadOnly /\ editor.value = d.code
    ELSE ~isReadOnly /\ editor.value = <<>>

\* C21: before any event of the user, the page is in read-only mode exactly
\* when the fragment it was loaded with decodes to a record with a non-empty
\* code, and then the editor holds that code; in every other case the page
\* is in editing mode and the editor is empty.
LoadSeedsEditor ==
    uiEvents = 0 => SeededFrom(decode(slice(initialHash, 1), Thrown))

\* loaded with the token of a snippet without lang: read-only, with its code
LoadSeedsEditorWitness ==
    /\ uiEvents = 0
    /\ initialHash = HASH \o encode(Str(<<"a", " ", "b">>), UNDEFINED, 1793779100)
    /\ isReadOnly
    /\ editor.value = Str(<<"a", " ", "b">>)

\* C22: isReadOnly changes from true to false only in a tap that comes less
\* than 300 ms after the tap before it; it never changes from false to
\* true; and no call of updateUrlHash by the debounced change handler is
\* made while isReadOnly is true.
ReadOnlyLeftByDoubleTap ==
    [][/\ (isReadOnly /\ ~isReadOnly') =>
              /\ uiEvents' = uiEvents + 1
              /\ lastTapTime' = elapsed
              /\ lastTapTime >= 0
              /\ elapsed - lastTapTime < 300
       /\ ~isReadOnly => ~isReadOnly'
       /\ (Len(calls') > Len(calls) /\ calls'[Len(calls')].origin = "handleCodeChange") =>
              ~isReadOnly /\ ~isReadOnly']_vars

\* a page loaded read-only has been tapped twice at once and is edited
ReadOnlyLeftByDoubleTapWitness ==
    /\ initialHash # <<>>
    /\ ~isReadOnly
    /\ uiEvents = 2
    /\ lastTapTime = elapsed
    /\ calls = <<>>

(***************************************************************************)
(* Properties of the status that updateUrlHash returns.                    *)
(***************************************************************************)
\* st is a status for a URL of origin, pathname, # and the token tok
StatusOf(st, win, tok) ==
    /\ ~(st.isWarning /\ st.isError)
    /\ (~st.isWarning /\ ~st.isError) <=> st.length <= 2000
    /\ st.length = win.location.originLength + win.location.pathnameLength + 1 + Len(tok)

\* C23: the status that a call of updateUrlHash returns never has isWarning
\* and isError both; it has neither exactly when its length is at most 2000;
\* and its length is that of origin, pathname, # and the token of the call,
\* whether the call wrote the fragment or not.
StatusExclusive ==
    [][IsCall => StatusOf(LastCall'.status, window, Token(LastCall'))]_vars

\* the first call on a page was suppressed, at a URL of 8001 characters
StatusExclusiveWitness ==
    /\ Len(calls) = 1
    /\ calls[1].status = [length |-> 8001, isWarning |-> FALSE, isError |-> TRUE]
    /\ window.location.hash = initialHash
    /\ calls[1].status.length =
           window.location.originLength + window.location.pathnameLength + 1
               + Len(Token(calls[1]))

(***************************************************************************)
(* Properties of the service worker.                                       *)
(***************************************************************************)
\* the entries of the cache of this version
Entries ==
    IF CACHE_NAME \in DOMAIN caches
    THEN {caches[CACHE_NAME][u] : u \in DOMAIN caches[CACHE_NAME]}
    ELSE {}

\* the fetch event that a step adds
IsFetchEvent == Len(handled') = Len(handled) + 1
LastEvent == handled[Len(handled)]

\* the cache invariant for a test sameOrigin of the URL of a request: the
\* cache holds only responses with ok status to GET requests that pass the
\* test; no event with another method or a URL that fails the test was
\* intercepted; an event for a GET request that passes the test and is in
\* the cache is answered with the cached response, and a fetch of the
\* request is started
CacheRule(sameOrigin(_)) ==
    /\ \A e \in Entries' :
           e.response.ok /\ e.request.method = "GET" /\ sameOrigin(e.request.url)
    /\ \A i \in 1..Len(handled') :
           (handled'[i].request.method # "GET" \/ ~sameOrigin(handled'[i].request.url))
               => ~handled'[i].intercepted
    /\ (/\ IsFetchEvent
        /\ LastEvent'.request.method = "GET"
        /\ sameOrigin(LastEvent'.request.url)
        /\ match(caches, LastEvent'.request.url) # NoMatch) =>
           /\ LastEvent'.intercepted
           /\ LastEvent'.answer = match(caches, LastEvent'.request.url)
           /\ \E f \in fetching' \ fetching : f.request = LastEvent'.request

HasWorkerOrigin(url) == originOf(url) = WorkerOrigin
HasWorkerOriginAsPrefix(url) == startsWith(url, WorkerOrigin)

\* C24: the cache snippt-link-v1 holds only responses with ok status to GET
\* requests to the origin of the worker; a request with another method or to
\* another origin is never intercepted or cached; a request that is in the
\* cache is answered with the cached response while a fetch of it refreshes
\* the cache.
WorkerCacheInvariant == [][CacheRule(HasWorkerOrigin)]_vars

\* the same for the requests whose URL starts with the origin of the worker
WorkerCacheInvariantByPrefix == [][CacheRule(HasWorkerOriginAsPrefix)]_vars

====
